---- MODULE Spec2Model ----
(***************************************************************************)
(* State-machine model of the settlement breakdown generator               *)
(* (src/breakdowns.py): CloseOutStatement (normalisation of the closeout   *)
(* sheet, fuzzy lookups, section split), BreakdownWriter (layout and the   *)
(* cells of the generated sheet) and the batch loop of __main__.           *)
(*                                                                         *)
(* Text is a sequence of one-character strings, so that lower(), replace(),*)
(* strip(), upper() and the fuzzy regex are computed character by          *)
(* character.  An optional number (a pandas cell that may be NaN) is <<>>  *)
(* for NaN and <<v>> for the number v.                                     *)
(***************************************************************************)
EXTENDS Integers, Sequences, FiniteSets, TLC

(***************************************************************************)
(* Text helpers                                                            *)
(***************************************************************************)
NaN == <<>>

IsNaN(x) == x = <<>>

Num(v) == <<v>>

AbsInt(v) == IF v < 0 THEN 0 - v ELSE v

\* abs() of an optional number: abs(NaN) is NaN
Abs(a) == IF IsNaN(a) THEN NaN ELSE Num(AbsInt(a[1]))

Min2(a, b) == IF a < b THEN a ELSE b

LowerCase == <<"a","b","c","d","e","f","g","h","i","j","k","l","m","n","o","p","q","r","s","t","u","v","w","x","y","z">>

UpperCase == <<"A","B","C","D","E","F","G","H","I","J","K","L","M","N","O","P","Q","R","S","T","U","V","W","X","Y","Z">>

LowerChar(c) ==
    IF \E i \in 1..Len(UpperCase) : UpperCase[i] = c
    THEN LowerCase[CHOOSE i \in 1..Len(UpperCase) : UpperCase[i] = c]
    ELSE c

UpperChar(c) ==
    IF \E i \in 1..Len(LowerCase) : LowerCase[i] = c
    THEN UpperCase[CHOOSE i \in 1..Len(LowerCase) : LowerCase[i] = c]
    ELSE c

\* str.lower()
Lower(s) == [i \in 1..Len(s) |-> LowerChar(s[i])]

\* str.upper()
Upper(s) == [i \in 1..Len(s) |-> UpperChar(s[i])]

\* does pat occur in s at position i
OccursAt(s, pat, i) ==
    /\ i + Len(pat) - 1 <= Len(s)
    /\ \A k \in 1..Len(pat) : s[i + k - 1] = pat[k]

RECURSIVE ReplaceFrom(_, _, _)
ReplaceFrom(s, pat, i) ==
    IF i > Len(s) THEN <<>>
    ELSE IF OccursAt(s, pat, i) THEN ReplaceFrom(s, pat, i + Len(pat))
    ELSE <<s[i]>> \o ReplaceFrom(s, pat, i + 1)

\* str.replace(pat, ''): every non-overlapping occurrence, left to right; for
\* a pattern of one character that is every character but it
Remove(s, pat) ==
    IF Len(pat) = 1 THEN SelectSeq(s, LAMBDA c : c # pat[1])
    ELSE ReplaceFrom(s, pat, 1)

RECURSIVE LStrip(_)
LStrip(s) == IF s # <<>> /\ Head(s) = " " THEN LStrip(Tail(s)) ELSE s

RECURSIVE RStrip(_)
RStrip(s) == IF s # <<>> /\ s[Len(s)] = " " THEN RStrip(SubSeq(s, 1, Len(s) - 1)) ELSE s

\* str.strip()
Strip(s) == LStrip(RStrip(s))

(***************************************************************************)
(* CloseOutStatement._is_fuzzy_match: regex.findall("(match){e<=errors}",  *)
(* item) is non-empty iff some substring of item is within `errors`        *)
(* insertions, deletions and substitutions of match.  Computed column by   *)
(* column (one column per character of item), a match being free to start  *)
(* anywhere in item.                                                       *)
(***************************************************************************)
RECURSIVE FuzzyColumn(_, _, _, _)
\* the next column of edit distances: acc holds the entries 0..Len(acc)-1
FuzzyColumn(prev, match, c, acc) ==
    IF Len(acc) = Len(match) + 1 THEN acc
    ELSE LET i == Len(acc)
             sub == prev[i] + (IF match[i] = c THEN 0 ELSE 1)
             del == prev[i + 1] + 1
             ins == acc[i] + 1
         IN FuzzyColumn(prev, match, c, Append(acc, Min2(sub, Min2(del, ins))))

RECURSIVE FuzzyScan(_, _, _, _, _)
FuzzyScan(item, match, errors, j, col) ==
    IF col[Len(match) + 1] <= errors THEN TRUE
    ELSE IF j > Len(item) THEN FALSE
    ELSE FuzzyScan(item, match, errors, j + 1, FuzzyColumn(col, match, item[j], <<0>>))

\* the match with one error more than the budget allowed
_is_fuzzy_match_loose(item, match, errors) ==
    FuzzyScan(item, match, errors + 1, 1, [i \in 1..(Len(match) + 1) |-> i - 1])

_is_fuzzy_match(item, match, errors) ==
    FuzzyScan(item, match, errors, 1, [i \in 1..(Len(match) + 1) |-> i - 1])

(***************************************************************************)
(* Outcome of a call: a returned value, or the exception it raised         *)
(***************************************************************************)
Ok(v) == [ok |-> TRUE, val |-> v, exc |-> "none"]

Raise(e) == [ok |-> FALSE, val |-> <<>>, exc |-> e]

(***************************************************************************)
(* CloseOutStatement.preprocess_closeout_df                                *)
(*                                                                         *)
(* A raw sheet is [ncols, rows]; a raw row is [b, c, j]: the cells of      *)
(* columns 1, 2 and 9, each an optional value (<<>> empty, <<text>>,       *)
(* <<number>>).  A row of closeout_df is [item, amount].                   *)
(***************************************************************************)
\* the highest column index used by closeout_df[[1,2,9]]
LastColumn == 9

len_thresh == 150

\* _drop_columns_closeout: closeout_df[[1,2,9]] raises KeyError when a column is absent
HasColumns(raw) == raw.ncols > LastColumn

\* _combine_item_columns_closeout + _rename_columns_closeout: column 1 where it
\* is not NaN, else column 2
CombineRow(r) == [item |-> IF IsNaN(r.b) THEN r.c ELSE r.b, amount |-> r.j]

_combine_item_columns_closeout(rows) == [i \in 1..Len(rows) |-> CombineRow(rows[i])]

NotAllNaN(r) == ~(IsNaN(r.item) /\ IsNaN(r.amount))

\* dropna(how='all'): a row goes only when item and amount are both NaN
_drop_empty_rows_closeout(df) == SelectSeq(df, NotAllNaN)

RECURSIVE Digits(_)
Digits(n) == IF n < 10 THEN 1 ELSE 1 + Digits(n \div 10)

\* len(str(x)) of an amount cell: "nan", or the sign, the digits and ".0"
AmountStrLen(a) ==
    IF IsNaN(a) THEN 3
    ELSE Digits(AbsInt(a[1])) + (IF a[1] < 0 THEN 1 ELSE 0) + 2

\* len(str(x)) of an item cell: "nan" for NaN
ItemStrLen(x) == IF IsNaN(x) THEN 3 ELSE Len(x[1])

NotVerbose(r) == ~(ItemStrLen(r.item) > len_thresh \/ AmountStrLen(r.amount) > len_thresh)

_drop_verbose_rows_closeout(df) == SelectSeq(df, NotVerbose)

_format_items(item) == Strip(Remove(Remove(Lower(item), <<":">>), <<"-">>))

FormatRow(r) == [item |-> <<_format_items(r.item[1])>>, amount |-> r.amount]

\* _format_item_entries_closeout: item.lower() on a NaN (float) item raises AttributeError
_format_item_entries_closeout(df) ==
    IF \E i \in 1..Len(df) : IsNaN(df[i].item)
    THEN Raise("AttributeError")
    ELSE Ok([i \in 1..Len(df) |-> FormatRow(df[i])])

preprocess_closeout_df(raw) ==
    IF ~HasColumns(raw) THEN Raise("KeyError")
    ELSE _format_item_entries_closeout(
             _drop_verbose_rows_closeout(
                 _drop_empty_rows_closeout(
                     _combine_item_columns_closeout(raw.rows))))

(***************************************************************************)
(* The fuzzy lookups of CloseOutStatement                                  *)
(***************************************************************************)
PhraseSubtotal == <<"s","u","b","t","o","t","a","l">>

PhraseSettlement == <<"a","m","o","u","n","t"," ","o","f"," ","s","e","t","t","l","e","m","e","n","t">>

PhraseNet == <<"n","e","t"," ","t","o"," ","c","l","i","e","n","t">>

PhraseExpenses == <<"t","o","t","a","l"," ","e","x","p","e","n","s","e","s">>

PhraseMedical == <<"t","o","t","a","l"," ","m","e","d","i","c","a","l">>

PhraseName == <<"n","a","m","e">>

ErrorsSubtotal == 2

ErrorsAmount == 3

ErrorsName == 1

\* series.astype(str): the text of an item, "nan" for NaN
ItemStr(x) == IF IsNaN(x) THEN <<"n","a","n">> ELSE x[1]

(***************************************************************************)
(* The cell texts the modelled closeout sheets are written with            *)
(***************************************************************************)
\* "Name: Joe"
TextNameJoe == <<"N","a","m","e",":"," ","J","o","e">>

\* "Name: Ann"
TextNameAnn == <<"N","a","m","e",":"," ","A","n","n">>

\* "Amount of Settlement:"
TextSettlement == <<"A","m","o","u","n","t"," ","o","f"," ","S","e","t","t","l","e","m","e","n","t",":">>

\* "Amount of Settlment"
TextSettlment == <<"A","m","o","u","n","t"," ","o","f"," ","S","e","t","t","l","m","e","n","t">>

\* "Sub-Total"
TextSubTotal == <<"S","u","b","-","T","o","t","a","l">>

\* "Total Expenses:"
TextExpenses == <<"T","o","t","a","l"," ","E","x","p","e","n","s","e","s",":">>

\* "Total Expense"
TextExpense == <<"T","o","t","a","l"," ","E","x","p","e","n","s","e">>

\* "Medical/Liens"
TextHeader == <<"M","e","d","i","c","a","l","/","L","i","e","n","s">>

\* "Dr A"
TextDrA == <<"D","r"," ","A">>

\* "Dr B"
TextDrB == <<"D","r"," ","B">>

\* "Total Medical:"
TextMedical == <<"T","o","t","a","l"," ","M","e","d","i","c","a","l",":">>

\* "Total Medical Reductions:"
TextReductions == <<"T","o","t","a","l"," ","M","e","d","i","c","a","l"," ","R","e","d","u","c","t","i","o","n","s",":">>

\* "Sub-Total Medical"
TextSubTotalMedical == <<"S","u","b","-","T","o","t","a","l"," ","M","e","d","i","c","a","l">>

\* "Net to Client:"
TextNet == <<"N","e","t"," ","t","o"," ","C","l","i","e","n","t",":">>

\* "Net To Clients"
TextNetClients == <<"N","e","t"," ","T","o"," ","C","l","i","e","n","t","s">>

RawTexts == {TextNameJoe, TextNameAnn, TextSettlement, TextSettlment, TextSubTotal, TextExpenses, TextExpense, TextHeader, TextDrA, TextDrB, TextMedical, TextReductions, TextSubTotalMedical, TextNet, TextNetClients}

\* the item texts a preprocessed closeout_df can hold
Labels == {_format_items(t) : t \in RawTexts}

Lookups == {<<PhraseSubtotal, ErrorsSubtotal>>, <<PhraseSettlement, ErrorsAmount>>,
            <<PhraseNet, ErrorsAmount>>, <<PhraseExpenses, ErrorsAmount>>,
            <<PhraseMedical, ErrorsAmount>>, <<PhraseName, ErrorsName>>}

\* _is_fuzzy_match tabulated once for the item texts and the lookups of the model
FuzzyTable ==
    [k \in {<<l, q[1], q[2]>> : l \in Labels, q \in Lookups} |-> _is_fuzzy_match(k[1], k[2], k[3])] @@ <<>>

IsFuzzyMatch(item, match, errors) ==
    IF <<item, match, errors>> \in DOMAIN FuzzyTable
    THEN FuzzyTable[<<item, match, errors>>]
    ELSE _is_fuzzy_match(item, match, errors)

\* the mask of the rows whose item matches
_fuzzy_match_series(df, match, errors) ==
    [i \in 1..Len(df) |-> IsFuzzyMatch(ItemStr(df[i].item), match, errors)]

RECURSIVE MaskIdxsFrom(_, _)
MaskIdxsFrom(mask, i) ==
    IF i > Len(mask) THEN <<>>
    ELSE (IF mask[i] THEN <<i>> ELSE <<>>) \o MaskIdxsFrom(mask, i + 1)

\* closeout_df[mask].index: the positions of the matching rows, in document order
MatchIdxs(df, match, errors) == MaskIdxsFrom(_fuzzy_match_series(df, match, errors), 1)

\* values[-1]: the last matching row instead of the first
LastMatch(df, match, errors) ==
    LET idxs == MatchIdxs(df, match, errors)
    IN IF df = <<>> THEN Raise("KeyError")
       ELSE IF idxs = <<>> THEN Raise("IndexError")
       ELSE Ok(df[idxs[Len(idxs)]])

\* a lookup that answers an empty row when nothing matches
FirstMatchOrNaN(df, match, errors) ==
    LET idxs == MatchIdxs(df, match, errors)
    IN IF idxs = <<>> THEN Ok([item |-> << <<>> >>, amount |-> NaN])
       ELSE Ok(df[idxs[1]])

\* closeout_df[mask][column].values[0]: on an empty frame the (empty, non-boolean)
\* mask selects no column, so [column] raises KeyError; with rows but no match
\* values[0] raises IndexError
FirstMatch(df, match, errors) ==
    LET idxs == MatchIdxs(df, match, errors)
    IN IF df = <<>> THEN Raise("KeyError")
       ELSE IF idxs = <<>> THEN Raise("IndexError")
       ELSE Ok(df[idxs[1]])

\* the amount with abs() taken in the lookup
AmountOfAbs(found) == IF found.ok THEN Ok(Abs(found.val.amount)) ELSE found

AmountOf(found) == IF found.ok THEN Ok(found.val.amount) ELSE found

get_settlement_amount(df) == AmountOf(FirstMatch(df, PhraseSettlement, ErrorsAmount))

get_net_to_client_amount(df) == AmountOf(FirstMatch(df, PhraseNet, ErrorsAmount))

get_total_expenses(df) == AmountOf(FirstMatch(df, PhraseExpenses, ErrorsAmount))

get_total_medical(df) == AmountOf(FirstMatch(df, PhraseMedical, ErrorsAmount))

get_client_name(df) ==
    LET found == FirstMatch(df, PhraseName, ErrorsName)
    IN IF found.ok THEN Ok(Strip(Remove(ItemStr(found.val.item), PhraseName))) ELSE found

\* split_closeout_df with the slices ending before the subtotal row (iloc[:idx])
split_closeout_df_exclusive(df) ==
    LET subtotal_idxs == MaskIdxsFrom(_fuzzy_match_series(df, PhraseSubtotal, ErrorsSubtotal), 1)
    IN IF Len(subtotal_idxs) < 3 THEN Raise("IndexError")
       ELSE Ok([settlement_df |-> SubSeq(df, 1, subtotal_idxs[1] - 1),
                expenses_df |-> SubSeq(df, subtotal_idxs[1], subtotal_idxs[2] - 1),
                medical_df |-> SubSeq(df, subtotal_idxs[2], subtotal_idxs[3] - 1)])

\* split_closeout_df: subtotal_idxs[0], [1], [2] raise IndexError when there are
\* fewer than three matches; iloc slices end with the subtotal row that closes them
split_closeout_df(df) ==
    LET subtotal_idxs == MatchIdxs(df, PhraseSubtotal, ErrorsSubtotal)
    IN IF Len(subtotal_idxs) < 3 THEN Raise("IndexError")
       ELSE Ok([settlement_df |-> SubSeq(df, 1, subtotal_idxs[1]),
                expenses_df |-> SubSeq(df, subtotal_idxs[1] + 1, subtotal_idxs[2]),
                medical_df |-> SubSeq(df, subtotal_idxs[2] + 1, subtotal_idxs[3])])

NoNaN(r) == ~IsNaN(r.item) /\ ~IsNaN(r.amount)

\* DataFrame.dropna(): a row goes when any of its fields is NaN
dropna(df) == SelectSeq(df, NoNaN)

\* iloc[0:-2]: one summary row too many is kept
AllButLastTwo(df) == SubSeq(df, 1, Len(df) - 2)

\* medical_df.iloc[0:-3]: all rows but the last three, from the first row on
AllButLastThree(df) == SubSeq(df, 1, Len(df) - 3)

get_medical_items(df) ==
    LET parts == split_closeout_df(df)
    IN IF parts.ok THEN Ok(dropna(AllButLastThree(parts.val.medical_df))) ELSE parts

(***************************************************************************)
(* parse_closeout_df: the six attributes are assigned one after the other; *)
(* an attribute is <<>> while unset and <<value>> once assigned.  The first*)
(* call that raises ends the method and leaves the earlier attributes set. *)
(***************************************************************************)
NoFacts ==
    [client_name |-> <<>>, settlement_amount |-> <<>>, net_to_client_amount |-> <<>>,
     total_expenses_amount |-> <<>>, total_medical_amount |-> <<>>, medical_items |-> <<>>]

FactNames ==
    <<"client_name", "settlement_amount", "net_to_client_amount",
      "total_expenses_amount", "total_medical_amount", "medical_items">>

FactCall(df, i) ==
    CASE i = 1 -> get_client_name(df)
      [] i = 2 -> get_settlement_amount(df)
      [] i = 3 -> get_net_to_client_amount(df)
      [] i = 4 -> get_total_expenses(df)
      [] i = 5 -> get_total_medical(df)
      [] i = 6 -> get_medical_items(df)

RECURSIVE ParseFrom(_, _, _)
ParseFrom(df, i, facts) ==
    IF i > Len(FactNames) THEN [facts |-> facts, exc |-> "none"]
    ELSE LET r == FactCall(df, i)
         IN IF r.ok THEN ParseFrom(df, i + 1, [facts EXCEPT ![FactNames[i]] = <<r.val>>])
            ELSE [facts |-> facts, exc |-> r.exc]

parse_closeout_df(df, facts) == ParseFrom(df, 1, facts)

(***************************************************************************)
(* State                                                                   *)
(***************************************************************************)
VARIABLES
    closeout_df,    \* the statement whose methods are called (extraction runs)
    facts,          \* the six attributes parse_closeout_df assigns
    op,             \* the method called on closeout_df, "none" before the call
    ret,            \* what that call returned or raised
    filenames,      \* __main__: the raw sheets chosen in the file dialog
    statements,     \* __main__: closeout_df of every CloseOutStatement built so far
    pc,             \* __main__: the position of the program
    idx,            \* __main__: the statement the loop is at
    client_name,    \* __main__: statement.get_client_name().upper()
    is_lit,         \* __main__: the answer to the litigation prompt
    writer,         \* the BreakdownWriter under construction: its layout fields
    sheet,          \* writer.sheet: (column, row) -> value of every cell written
    disk,           \* the output files saved so far: the statement and its sheet
    error           \* the exception that ended the program, "none" otherwise

vars ==
    <<closeout_df, facts, op, ret, filenames, statements, pc, idx, client_name,
      is_lit, writer, sheet, disk, error>>

extractVars == <<closeout_df, facts, op, ret>>

mainVars == <<filenames, statements, pc, idx, client_name, is_lit, writer, sheet, disk, error>>

(***************************************************************************)
(* Inputs of the extraction runs: preprocessed statements                  *)
(***************************************************************************)
\* a sheet row with its label in column 1 (B)
ItemRow(text, amount) == [b |-> <<text>>, c |-> NaN, j |-> amount]

\* a sheet row with its label in column 2 (C), where sub-total labels reside
SubTotalRow(text, amount) == [b |-> NaN, c |-> <<text>>, j |-> amount]

\* the row of closeout_df a sheet row becomes
Rec(r) == FormatRow(CombineRow(r))

MaxRecs == 4

MaxItems == 10

\* rows of a closeout sheet, in document order; several phrases have two matches
Template ==
    << Rec(ItemRow(TextNameJoe, NaN)),
       Rec(ItemRow(TextSettlement, Num(90))),
       Rec(ItemRow(TextSettlment, Num(80))),
       Rec(SubTotalRow(TextSubTotal, Num(90))),
       Rec(ItemRow(TextExpenses, Num(0 - 5))),
       Rec(ItemRow(TextExpense, Num(4))),
       Rec(SubTotalRow(TextSubTotal, Num(0 - 5))),
       Rec(ItemRow(TextDrA, Num(0 - 7))),
       Rec(ItemRow(TextMedical, Num(0 - 7))),
       Rec(ItemRow(TextReductions, Num(1))),
       Rec(SubTotalRow(TextSubTotalMedical, Num(0 - 6))),
       Rec(ItemRow(TextNet, Num(50))),
       Rec(ItemRow(TextNetClients, Num(40))),
       Rec(ItemRow(TextNameAnn, NaN)) >> @@ <<>>

RecPool ==
    { Rec(ItemRow(TextNameJoe, NaN)), Rec(ItemRow(TextSettlement, Num(90))),
      Rec(SubTotalRow(TextSubTotal, Num(2))), Rec(ItemRow(TextExpenses, Num(0 - 5))),
      Rec(ItemRow(TextMedical, Num(3))), Rec(ItemRow(TextNet, Num(50))) }

RECURSIVE Pick(_, _, _)
\* the rows of s at the positions in S, in the order of s
Pick(s, S, i) ==
    IF i > Len(s) THEN <<>>
    ELSE (IF i \in S THEN <<s[i]>> ELSE <<>>) \o Pick(s, S, i + 1)

\* the rows before the medical section: two sections, each closed by a subtotal
SectionPrefix ==
    << Rec(ItemRow(TextNameJoe, NaN)), Rec(ItemRow(TextSettlement, Num(90))),
       Rec(SubTotalRow(TextSubTotal, Num(90))), Rec(ItemRow(TextExpenses, Num(0 - 5))),
       Rec(SubTotalRow(TextSubTotal, Num(0 - 5))) >> @@ <<>>

\* the three summary rows that end the medical section
SummaryRows ==
    << Rec(ItemRow(TextMedical, Num(0 - 7))), Rec(ItemRow(TextReductions, Num(1))),
       Rec(SubTotalRow(TextSubTotalMedical, Num(0 - 6))) >> @@ <<>>

\* the header row of the medical section, without or with an amount
HeaderRows == {Rec(ItemRow(TextHeader, NaN)), Rec(ItemRow(TextHeader, Num(0)))}

\* the i-th itemized row: providers and signs alternate, the amount may be empty
MedItem(i, billed) ==
    Rec(ItemRow(IF i % 2 = 1 THEN TextDrA ELSE TextDrB,
                IF billed THEN Num(IF i % 2 = 1 THEN i ELSE 0 - i) ELSE NaN))

\* statements whose medical section is a header, k itemized rows and the summary rows
\* MedItem tabulated once
MedItems == [i \in 1..(MaxItems + 1), billed \in BOOLEAN |-> MedItem(i, billed)] @@ <<>>

MedicalSection(h, k, f) == <<h>> \o [i \in 1..k |-> MedItems[i, f[i]]] \o SummaryRows

\* a statement of at most MaxRecs rows of RecPool, in any order
FreeInput(df) == \E n \in 0..MaxRecs : \E f \in [1..n -> RecPool] : df = f

\* a statement made of some rows of Template, in the order of Template
TemplateInput(df) == \E S \in SUBSET (1..Len(Template)) : df = Pick(Template, S, 1)

\* a statement whose medical section is a header, k itemized rows and the summary rows
MedicalInput(df) ==
    \E k \in 0..MaxItems : \E h \in HeaderRows : \E f \in [1..k -> BOOLEAN] :
        df = SectionPrefix \o MedicalSection(h, k, f)

(***************************************************************************)
(* Extraction runs: one method of CloseOutStatement is called on the       *)
(* statement                                                               *)
(***************************************************************************)
Idle ==
    /\ filenames = <<>>
    /\ statements = <<>>
    /\ pc = "idle"
    /\ idx = 0
    /\ client_name = <<>>
    /\ is_lit = FALSE
    /\ writer = <<>>
    /\ sheet = <<>>
    /\ disk = <<>>
    /\ error = "none"

InitExtract ==
    /\ \/ FreeInput(closeout_df)
       \/ TemplateInput(closeout_df)
       \/ MedicalInput(closeout_df)
    /\ facts = NoFacts
    /\ op = "none"
    /\ ret = Ok(<<>>)
    /\ Idle

Call(name, result) ==
    /\ op = "none"
    /\ pc = "idle"
    /\ op' = name
    /\ ret' = result
    /\ UNCHANGED <<closeout_df, facts>>
    /\ UNCHANGED mainVars

CallGetClientName == Call("get_client_name", get_client_name(closeout_df))

CallGetSettlementAmount == Call("get_settlement_amount", get_settlement_amount(closeout_df))

CallGetNetToClientAmount == Call("get_net_to_client_amount", get_net_to_client_amount(closeout_df))

CallGetTotalExpenses == Call("get_total_expenses", get_total_expenses(closeout_df))

CallGetTotalMedical == Call("get_total_medical", get_total_medical(closeout_df))

CallSplitCloseoutDf == Call("split_closeout_df", split_closeout_df(closeout_df))

CallGetMedicalItems == Call("get_medical_items", get_medical_items(closeout_df))

CallParseCloseoutDf ==
    /\ op = "none"
    /\ pc = "idle"
    /\ op' = "parse_closeout_df"
    /\ LET r == parse_closeout_df(closeout_df, facts)
       IN /\ facts' = r.facts
          /\ ret' = IF r.exc = "none" THEN Ok(<<>>) ELSE Raise(r.exc)
    /\ UNCHANGED closeout_df
    /\ UNCHANGED mainVars

NextExtract ==
    \/ CallGetClientName
    \/ CallGetSettlementAmount
    \/ CallGetNetToClientAmount
    \/ CallGetTotalExpenses
    \/ CallGetTotalMedical
    \/ CallSplitCloseoutDf
    \/ CallGetMedicalItems
    \/ CallParseCloseoutDf

SpecExtract == InitExtract /\ [][NextExtract]_vars

(***************************************************************************)
(* Preprocessing runs: CloseOutStatement(path) on a raw sheet.  The sheet   *)
(* is held in filenames, the constructor's outcome in ret and, when it      *)
(* returns, closeout_df is the statement's frame.                           *)
(***************************************************************************)
MaxRows == 3

\* a cell text of n characters
LabelOfLen(n) == [i \in 1..n |-> IF i % 2 = 1 THEN "X" ELSE "-"]

\* raw rows: a label in column 1, in column 2, in both, in neither (with and
\* without an amount), and labels of len_thresh and len_thresh + 1 characters
RawRowPool ==
    { [b |-> <<TextNameJoe>>, c |-> NaN, j |-> NaN],
      [b |-> NaN, c |-> <<TextSubTotal>>, j |-> Num(90)],
      [b |-> <<TextExpenses>>, c |-> <<TextSubTotal>>, j |-> Num(0 - 5)],
      [b |-> NaN, c |-> NaN, j |-> NaN],
      [b |-> NaN, c |-> NaN, j |-> Num(12)],
      [b |-> <<LabelOfLen(len_thresh)>>, c |-> NaN, j |-> Num(2)],
      [b |-> <<LabelOfLen(len_thresh + 1)>>, c |-> NaN, j |-> Num(1)] }

\* a sheet of at most MaxRows rows of RawRowPool, in any order, with the
\* ten columns closeout_df[[1,2,9]] needs or one column short
InitPreprocess ==
    /\ \E n \in 0..MaxRows : \E f \in [1..n -> RawRowPool] :
          \E ncols \in {LastColumn, LastColumn + 1} :
              filenames = << [ncols |-> ncols, rows |-> f] >>
    /\ closeout_df = <<>>
    /\ facts = NoFacts
    /\ op = "none"
    /\ ret = Ok(<<>>)
    /\ statements = <<>>
    /\ pc = "idle"
    /\ idx = 0
    /\ client_name = <<>>
    /\ is_lit = FALSE
    /\ writer = <<>>
    /\ sheet = <<>>
    /\ disk = <<>>
    /\ error = "none"

\* CloseOutStatement.__init__: import_closeout_as_df, then preprocess_closeout_df
CallPreprocessCloseoutDf ==
    /\ op = "none"
    /\ pc = "idle"
    /\ filenames # <<>>
    /\ op' = "preprocess_closeout_df"
    /\ LET r == preprocess_closeout_df(filenames[1])
       IN /\ ret' = r
          /\ closeout_df' = IF r.ok THEN r.val ELSE <<>>
    /\ UNCHANGED facts
    /\ UNCHANGED mainVars

SpecPreprocess == InitPreprocess /\ [][CallPreprocessCloseoutDf]_vars

(***************************************************************************)
(* BreakdownWriter: the layout and the cells each step writes.             *)
(* A cell is <<column, row>>.  A value is a literal string (Str), a text   *)
(* taken from the statement (Text), an optional number (Number), a decimal *)
(* literal (Dec) or a formula: its f-string with {0}, {1}, ... for the     *)
(* row numbers interpolated into it, and those row numbers.                *)
(***************************************************************************)
Str(s) == [k |-> "str", v |-> s]

Text(t) == [k |-> "text", v |-> t]

Number(a) == [k |-> "num", v |-> a]

Dec(d) == [k |-> "dec", v |-> d]

Formula(f, rows) == [k |-> "formula", v |-> [f |-> f, rows |-> rows]]

title_final_row == 8

rates_top_row == 34

\* the final row computed without the extra row for the total
get_med_table_final_row_short(n_items) == 9 + n_items

\* get_med_table_final_row: 10 + len(get_medical_items())
get_med_table_final_row(n_items) == 10 + n_items

\* range(a, b) as a sequence
Range(a, b) == [i \in 1..(b - a) |-> a + i - 1]

\* the fields __init__ assigns before it builds the sheet
Layout(n_items) ==
    [title_final_row |-> title_final_row,
     med_table_final_row |-> get_med_table_final_row(n_items),
     med_table_rows |-> Range(title_final_row + 1, title_final_row + 1 + n_items + 1),
     bottom_section_first_row |-> get_med_table_final_row(n_items) + 2,
     rates_top_row |-> rates_top_row]

\* sheet[cell] = val
Put(sh, cell, val) == [c \in (DOMAIN sh) \cup {cell} |-> IF c = cell THEN val ELSE sh[c]]

\* the assignments of a step, in their order: a cell written more than once
\* keeps the last value written to it
WriteAll(sh, writes) ==
    LET cells == {writes[i][1] : i \in DOMAIN writes}
        LastWrite(c) == CHOOSE i \in DOMAIN writes :
                            /\ writes[i][1] = c
                            /\ \A j \in DOMAIN writes : writes[j][1] = c => j <= i
    IN [c \in (DOMAIN sh) \cup cells |->
            IF c \in cells THEN writes[LastWrite(c)][2] ELSE sh[c]]

\* zip(a, b): pairs up to the shorter of the two
Zip(a, b) == [i \in 1..Min2(Len(a), Len(b)) |-> <<a[i], b[i]>>]

\* create_title
create_title(name) ==
    << << <<"B", 5>>, Str("STATEMENT OF BREAKDOWN") >>, << <<"B", 6>>, Text(name) >> >>

ColumnAHeaders ==
    << "Settlement Amount", "Amount Stated to Providers", "1/3 of Settlement for Meds",
       "Attorney Fees", "% to Business", "OJ", "Expenses", "Total to Business",
       "Net to Client" >>

\* range(a, b, 2) as a sequence
Range2(a, b) == [i \in 1..((b - a + 1) \div 2) |-> a + 2 * (i - 1)]

insert_column_a_financials_headers(w) ==
    Zip([i \in 1..Len(ColumnAHeaders) |->
            <<"A", Range2(w.title_final_row + 1, w.title_final_row + 1 + Len(ColumnAHeaders) * 2)[i]>>],
        [i \in 1..Len(ColumnAHeaders) |-> Str(ColumnAHeaders[i])])

\* the factor of litigation whatever the flag is
AttorneyFeesFormulaAlwaysLit(lit) == "=(A10*0.4)-B{0}"

AttorneyFeesFormula(lit) ==
    IF lit THEN "=(A10*0.4)-B{0}" ELSE "=(A10*0.3333333333333333)-B{0}"

\* amount_values of insert_column_a_financials_amounts
ColumnAAmounts(w, lit, settlement, expenses) ==
    << Number(settlement),
       Number(Num(0)),
       Formula("=A10/3", <<>>),
       Formula(AttorneyFeesFormula(lit), <<w.bottom_section_first_row + 5>>),
       Formula("=A16*B{0}", <<w.rates_top_row + 1>>),
       Formula("=A14-D{0}", <<w.med_table_final_row>>),
       Number(Abs(expenses)),
       Formula("=A18+A20+A22", <<>>),
       Formula("=A10-A16-A20-A22-D{0}-B{1}",
               <<w.med_table_final_row, w.bottom_section_first_row + 3>>) >>

insert_column_a_financials_amounts(w, lit, settlement, expenses) ==
    LET amount_values == ColumnAAmounts(w, lit, settlement, expenses)
        amount_rows == Range2(w.title_final_row + 2, w.title_final_row + 2 + Len(amount_values) * 2)
    IN Zip([i \in 1..Len(amount_rows) |-> <<"A", amount_rows[i]>>], amount_values)

MedHeaders ==
    << Str("Medical Provider"), Str("Billed Amount"), Str("Paid/Projected Amount"), Str("Comments") >>

MedCols == <<"B", "C", "D", "E">>

\* generate_medical_table_items: the header row, then one row per item
generate_medical_table_items(med_items) ==
    <<MedHeaders>> \o
    [i \in 1..Len(med_items) |->
        << Text(med_items[i].item[1]), Number(Abs(med_items[i].amount)), Number(Num(0)), Str("-") >>]

\* [item for col in zip(*med_table) for item in col]: column after column
FlattenByColumn(med_table) ==
    [p \in 1..(Len(MedCols) * Len(med_table)) |->
        med_table[((p - 1) % Len(med_table)) + 1][((p - 1) \div Len(med_table)) + 1]]

\* itertools.product(med_cols, med_rows): every row of B, then of C, D, E
generate_medical_table_cells(w) ==
    [p \in 1..(Len(MedCols) * Len(w.med_table_rows)) |->
        << MedCols[((p - 1) \div Len(w.med_table_rows)) + 1],
           w.med_table_rows[((p - 1) % Len(w.med_table_rows)) + 1] >>]

\* the item and header cells insert_medical_table assigns
MedicalTableWrites(w, med_items) ==
    Zip(generate_medical_table_cells(w), FlattenByColumn(generate_medical_table_items(med_items)))

\* the SUM range starting at med_table_rows[0], the header row
SumFromHeaderRow(w) == w.med_table_rows[1]

\* the first row of the SUM range: med_table_rows[1]
SumFirstRow(w) == w.med_table_rows[2]

\* the last row of the SUM range: med_table_rows[-1]
SumLastRow(w) == w.med_table_rows[Len(w.med_table_rows)]

\* insert_total_medical_row, whose med_table_rows[1] raises IndexError for a
\* one-element med_table_rows, after 'Total' is written
TotalLabelWrite(w) == << << <<"B", w.med_table_final_row>>, Str("Total") >> >>

insert_total_medical_row(w) ==
    TotalLabelWrite(w) \o
    << << <<"C", w.med_table_final_row>>, Formula("=SUM(C{0}:C{1})", <<SumFirstRow(w), SumLastRow(w)>>) >>,
       << <<"D", w.med_table_final_row>>, Formula("=SUM(D{0}:D{1})", <<SumFirstRow(w), SumLastRow(w)>>) >> >>

n_financial_items == 5

ColumnBHeaders ==
    << "Total to be Split to Owners", "33.33% OR 10% OR Joe Ref INSERT AMOUNT BELOW",
       "Google Atty Portion", "Google Business Portion",
       "INSERT 500 BELOW IF LINDALE (goes to mkt acct)" >>

insert_column_b_financials_headers(w) ==
    LET header_rows == Range2(w.bottom_section_first_row,
                              w.bottom_section_first_row + n_financial_items * 2)
    IN Zip([i \in 1..Len(header_rows) |-> <<"B", header_rows[i]>>],
           [i \in 1..Len(ColumnBHeaders) |-> Str(ColumnBHeaders[i])])

insert_column_b_financials_amounts(w) ==
    LET amount_rows == Range2(w.bottom_section_first_row + 1,
                              w.bottom_section_first_row + n_financial_items * 2)
        amount_values ==
            << Formula("=(A16*B{0}) - B{1}", <<w.rates_top_row, w.bottom_section_first_row + 5>>),
               Number(Num(0)), Number(Num(0)), Number(Num(0)), Number(Num(0)) >>
    IN Zip([i \in 1..Len(amount_rows) |-> <<"B", amount_rows[i]>>], amount_values)

n_accounts == 10

AccountNames ==
    << "AP/CN", "Jerry", "CASE MANAGER", "Business", "Total to Business", "MKT", "CSH",
       "10% or 1/3 or Joe Referral (Write From Operating and give 1099)", "BLD" >>

AccountAmounts(w) ==
    LET b == w.bottom_section_first_row
    IN << Formula("=(B{0}-D{1})/2", <<b + 1, b + 1>>),
          Formula("=B{0}*0.13", <<b + 1>>),
          Formula("=A16*B{0}", <<w.rates_top_row + 2>>),
          Formula("=(A24-B{0})", <<b + 7>>),
          Formula("=D{0}*2 + D{1} + D{2} + D{3} + D{4} + B{5} + B{6} + B{7}",
                  <<b, b + 1, b + 2, b + 3, b + 6, b + 3, b + 5, b + 7>>),
          Formula("=A16*0.2825+(B{0}+B{1}+B{2})", <<b + 5, b + 7, b + 9>>),
          Formula("=A16*B{0}", <<w.rates_top_row + 3>>),
          Formula("=B{0}", <<b + 3>>),
          Formula("=A16*0.04", <<>>) >>

\* insert_payouts_section: C and D of each account row, then F and G of the first
insert_payouts_section(w) ==
    LET b == w.bottom_section_first_row
        account_rows == Range(b, b + n_accounts)
        n == Min2(Len(account_rows), Min2(Len(AccountNames), Len(AccountAmounts(w))))
    IN [p \in 1..(2 * n) |->
           IF p % 2 = 1
           THEN << <<"C", account_rows[(p + 1) \div 2]>>, Str(AccountNames[(p + 1) \div 2]) >>
           ELSE << <<"D", account_rows[p \div 2]>>, AccountAmounts(w)[p \div 2] >>]
       \o
       << << <<"F", b>>, Str("Total to Operating") >>,
          << <<"G", b>>, Formula("=D{0} - SUM(D{1}:D{2}) - SUM(D{3}:D{4}) - D{5} - A20",
                                 <<b + 4, b, b + 2, b + 5, b + 8, b>>) >> >>

RateNames ==
    << "AP/CN", "Firm", "Commission", "To Cash's", "THIS CELL MUST ALWAYS EQUAL 1.0000",
       "Jerry % Calculation" >>

RateAmounts(w) ==
    << Dec("0.25"), Dec("0.71"), Dec("0.01"), Dec("0.07 - 0.04"),
       Formula("=SUM(B{0}:B{1})", <<w.rates_top_row, w.rates_top_row + 3>>),
       Formula("=0.06*(1-B{0})", <<w.rates_top_row + 3>>) >>

\* insert_rates_comments: cells named by literal row numbers
insert_rates_comments ==
    << << <<"C", 34>>, Str("<- DO NOT CHANGE") >>,
       << <<"C", 35>>, Str("<- DO NOT CHANGE") >>,
       << <<"C", 39>>, Str("CHANGE 0.06 remains constant.") >>,
       << <<"D", 35>>, Str("From 0.71 change to 0.705") >>,
       << <<"D", 36>>, Str("For 1.5% change to 0.015") >>,
       << <<"E", 35>>, Str("From 0.71 change to 0.69") >>,
       << <<"E", 36>>, Str("For 3% (Ana + Ray) change to 0.03") >> >>

insert_rates(w) ==
    LET rate_rows == Range(w.rates_top_row, w.rates_top_row + Len(RateNames))
    IN [p \in 1..(2 * Len(rate_rows)) |->
           IF p % 2 = 1
           THEN << <<"A", rate_rows[(p + 1) \div 2]>>, Str(RateNames[(p + 1) \div 2]) >>
           ELSE << <<"B", rate_rows[p \div 2]>>, RateAmounts(w)[p \div 2] >>]
       \o insert_rates_comments

(***************************************************************************)
(* Inputs of __main__: the closeout sheets the file dialog can return      *)
(***************************************************************************)
MaxBatch == 2

MaxN == 3

ManyItems == 24

EmptyRow == [b |-> NaN, c |-> NaN, j |-> NaN]

\* the i-th itemized row of a sheet
SheetItem(i) ==
    ItemRow(IF i % 2 = 1 THEN TextDrA ELSE TextDrB, Num(IF i % 2 = 1 THEN i ELSE 0 - i))

NameRow(n) == ItemRow(IF n % 2 = 1 THEN TextNameJoe ELSE TextNameAnn, NaN)

SettlementRows == << ItemRow(TextSettlement, Num(90)), SubTotalRow(TextSubTotal, Num(90)) >>

ExpensesRow == ItemRow(TextExpenses, Num(0 - 5))

MedicalRows(n) ==
    << ItemRow(TextHeader, NaN) >> \o [i \in 1..n |-> SheetItem(i)] \o
    << ItemRow(TextMedical, Num(0 - 7)), ItemRow(TextReductions, Num(1)) >>

ClosingRows == << SubTotalRow(TextSubTotalMedical, Num(0 - 6)), ItemRow(TextNet, Num(50)) >>

Sheet(rows) == [ncols |-> LastColumn + 1, rows |-> rows]

\* a well-formed statement with n medical items
GoodSheet(n) ==
    Sheet(<<NameRow(n), EmptyRow>> \o SettlementRows \o <<ExpensesRow, SubTotalRow(TextSubTotal, Num(0 - 5))>>
          \o MedicalRows(n) \o ClosingRows)

\* no row matches 'name'
NoNameSheet ==
    Sheet(SettlementRows \o <<ExpensesRow, SubTotalRow(TextSubTotal, Num(0 - 5))>>
          \o MedicalRows(1) \o ClosingRows)

\* the sub-total row of the expenses section is missing: two 'subtotal' matches
TwoSubTotalsSheet ==
    Sheet(<<NameRow(1)>> \o SettlementRows \o <<ExpensesRow>> \o MedicalRows(1) \o ClosingRows)

\* no row matches 'total expenses'
NoExpensesSheet ==
    Sheet(<<NameRow(2)>> \o SettlementRows \o <<SubTotalRow(TextSubTotal, Num(0))>>
          \o MedicalRows(1) \o ClosingRows)

\* fewer than ten columns: column 9 is absent
NarrowSheet == [ncols |-> LastColumn, rows |-> GoodSheet(1).rows]

\* a row with an amount and no label in either label column
UnlabelledSheet == Sheet(GoodSheet(1).rows \o << [b |-> NaN, c |-> NaN, j |-> Num(12)] >>)

FilePool ==
    {GoodSheet(n) : n \in 0..MaxN} \cup {GoodSheet(ManyItems)} \cup
    {NoNameSheet, TwoSubTotalsSheet, NoExpensesSheet, NarrowSheet, UnlabelledSheet}

Batches == UNION {[1..n -> FilePool] : n \in 1..MaxBatch}

(***************************************************************************)
(* __main__: every statement is built first (line 601), then the loop      *)
(* names the output, stops in pdb, asks the litigation question, builds    *)
(* the BreakdownWriter step by step and saves the workbook.  No exception  *)
(* is caught anywhere: the first one ends the program.                     *)
(***************************************************************************)
NoExtract ==
    /\ closeout_df = <<>>
    /\ facts = NoFacts
    /\ op = "main"
    /\ ret = Ok(<<>>)

Init ==
    /\ filenames \in Batches
    /\ statements = <<>>
    /\ pc = "load"
    /\ idx = 0
    /\ client_name = <<>>
    /\ is_lit = FALSE
    /\ writer = <<>>
    /\ sheet = <<>>
    /\ disk = <<>>
    /\ error = "none"
    /\ NoExtract

\* an uncaught exception: the traceback is printed and the program exits
Crash(exc) ==
    /\ pc' = "crashed"
    /\ error' = exc

\* the statement the loop is at
Statement == statements[idx]

\* CloseOutStatement(path) for the next path of filenames
LoadStatement ==
    /\ pc = "load"
    /\ Len(statements) < Len(filenames)
    /\ LET r == preprocess_closeout_df(filenames[Len(statements) + 1])
       IN IF r.ok
          THEN /\ statements' = Append(statements, r.val)
               /\ IF Len(statements) + 1 = Len(filenames)
                  THEN pc' = "loop" /\ idx' = 1
                  ELSE UNCHANGED <<pc, idx>>
               /\ UNCHANGED error
          ELSE /\ Crash(r.exc)
               /\ UNCHANGED <<statements, idx>>
    /\ UNCHANGED <<filenames, client_name, is_lit, writer, sheet, disk>>
    /\ UNCHANGED extractVars

\* client_name = statement.get_client_name().upper()
NameOutput ==
    /\ pc = "loop"
    /\ LET r == get_client_name(Statement)
       IN IF r.ok
          THEN /\ client_name' = Upper(r.val)
               /\ pc' = "pdb"
               /\ UNCHANGED error
          ELSE /\ Crash(r.exc)
               /\ UNCHANGED client_name
    /\ UNCHANGED <<filenames, statements, idx, is_lit, writer, sheet, disk>>
    /\ UNCHANGED extractVars

\* pdb.set_trace(): the debugger prompt is left with 'continue' or with 'quit',
\* which raises BdbQuit
PdbSetTrace ==
    /\ pc = "pdb"
    /\ \E cmd \in {"continue", "quit"} :
          IF cmd = "continue"
          THEN pc' = "ask" /\ UNCHANGED error
          ELSE Crash("BdbQuit")
    /\ UNCHANGED <<filenames, statements, idx, client_name, is_lit, writer, sheet, disk>>
    /\ UNCHANGED extractVars

\* messagebox.askquestion("Litigation?", ...)
AskLitigation ==
    /\ pc = "ask"
    /\ \E response \in {"yes", "no"} : is_lit' = (response = "yes")
    /\ pc' = "init"
    /\ UNCHANGED <<filenames, statements, idx, client_name, writer, sheet, disk, error>>
    /\ UNCHANGED extractVars

\* BreakdownWriter.__init__ up to initialize_workbook: the layout fields
WriterInit ==
    /\ pc = "init"
    /\ LET r == get_medical_items(Statement)
       IN IF r.ok
          THEN /\ writer' = Layout(Len(r.val))
               /\ sheet' = <<>>
               /\ pc' = "create_title"
               /\ UNCHANGED error
          ELSE /\ Crash(r.exc)
               /\ UNCHANGED <<writer, sheet>>
    /\ UNCHANGED <<filenames, statements, idx, client_name, is_lit, disk>>
    /\ UNCHANGED extractVars

CreateTitle ==
    /\ pc = "create_title"
    /\ LET r == get_client_name(Statement)
       IN IF r.ok
          THEN /\ sheet' = WriteAll(sheet, create_title(r.val))
               /\ pc' = "insert_column_a_financials"
               /\ UNCHANGED error
          ELSE /\ Crash(r.exc)
               /\ UNCHANGED sheet
    /\ UNCHANGED <<filenames, statements, idx, client_name, is_lit, writer, disk>>
    /\ UNCHANGED extractVars

\* insert_column_a_financials: the headers are on the sheet when a lookup of
\* amount_values raises
InsertColumnAFinancials ==
    /\ pc = "insert_column_a_financials"
    /\ LET withHeaders == WriteAll(sheet, insert_column_a_financials_headers(writer))
           settlement == get_settlement_amount(Statement)
           expenses == get_total_expenses(Statement)
       IN IF ~settlement.ok
          THEN sheet' = withHeaders /\ Crash(settlement.exc)
          ELSE IF ~expenses.ok
          THEN sheet' = withHeaders /\ Crash(expenses.exc)
          ELSE /\ sheet' = WriteAll(withHeaders,
                               insert_column_a_financials_amounts(writer, is_lit, settlement.val, expenses.val))
               /\ pc' = "insert_medical_table"
               /\ UNCHANGED error
    /\ UNCHANGED <<filenames, statements, idx, client_name, is_lit, writer, disk>>
    /\ UNCHANGED extractVars

\* insert_medical_table: the table cells, then insert_total_medical_row
InsertMedicalTable ==
    /\ pc = "insert_medical_table"
    /\ LET items == get_medical_items(Statement).val
           withTable == WriteAll(sheet, MedicalTableWrites(writer, items))
       IN IF Len(writer.med_table_rows) < 2
          THEN sheet' = WriteAll(withTable, TotalLabelWrite(writer)) /\ Crash("IndexError")
          ELSE /\ sheet' = WriteAll(withTable, insert_total_medical_row(writer))
               /\ pc' = "insert_column_b_financials"
               /\ UNCHANGED error
    /\ UNCHANGED <<filenames, statements, idx, client_name, is_lit, writer, disk>>
    /\ UNCHANGED extractVars

Step(here, writes, next) ==
    /\ pc = here
    /\ sheet' = WriteAll(sheet, writes)
    /\ pc' = next
    /\ UNCHANGED <<filenames, statements, idx, client_name, is_lit, writer, disk, error>>
    /\ UNCHANGED extractVars

InsertColumnBFinancials ==
    Step("insert_column_b_financials",
         insert_column_b_financials_headers(writer) \o insert_column_b_financials_amounts(writer),
         "insert_payouts_section")

InsertPayoutsSection == Step("insert_payouts_section", insert_payouts_section(writer), "insert_rates")

\* the loop going to save_workbook without insert_rates having written
InsertRatesSkipped == Step("insert_rates", <<>>, "save")

InsertRates == Step("insert_rates", insert_rates(writer), "save")

\* output_file = parent_path / f'Breakdown {client_name}.xlsx'
OutputFile(name) == <<"B","r","e","a","k","d","o","w","n"," ">> \o name \o <<".","x","l","s","x">>

\* writer.save_workbook(output_file), then the next statement of the loop
SaveWorkbook ==
    /\ pc = "save"
    /\ disk' = Put(disk, OutputFile(client_name), [statement |-> idx, sheet |-> sheet])
    /\ IF idx < Len(statements)
       THEN idx' = idx + 1 /\ pc' = "loop"
       ELSE pc' = "done" /\ UNCHANGED idx
    /\ UNCHANGED <<filenames, statements, client_name, is_lit, writer, sheet, error>>
    /\ UNCHANGED extractVars

Next ==
    \/ LoadStatement
    \/ NameOutput
    \/ PdbSetTrace
    \/ AskLitigation
    \/ WriterInit
    \/ CreateTitle
    \/ InsertColumnAFinancials
    \/ InsertMedicalTable
    \/ InsertColumnBFinancials
    \/ InsertPayoutsSection
    \/ InsertRates
    \/ SaveWorkbook

Spec == Init /\ [][Next]_vars

(***************************************************************************)
(* Properties                                                              *)
(***************************************************************************)
\* the row's item matches 'subtotal' within two errors
IsSubtotal(r) == IsFuzzyMatch(ItemStr(r.item), PhraseSubtotal, ErrorsSubtotal)

CountSubtotals(s) == Cardinality({i \in 1..Len(s) : IsSubtotal(s[i])})

IsPrefix(s, t) == Len(s) <= Len(t) /\ \A i \in 1..Len(s) : s[i] = t[i]

Sections(v) == <<v.settlement_df, v.expenses_df, v.medical_df>>

Concat(v) == v.settlement_df \o v.expenses_df \o v.medical_df

SplitCalled == op = "split_closeout_df" /\ CountSubtotals(closeout_df) >= 3

\* C1 as stated: with at least three 'subtotal' matches, the three sections of
\* split_closeout_df concatenate to the whole statement, the rows after the
\* third subtotal match included.
C1_ConcatIsWholeStatement ==
    SplitCalled => ret.ok /\ Concat(ret.val) = closeout_df

\* C1 amended: with at least three 'subtotal' matches, split_closeout_df returns
\* three sections, each ending with its only subtotal match, whose concatenation
\* in order is the statement from its first row through the third subtotal
\* match; the rows after that match are in no section.
C1_ConcatIsPrefixThroughThirdSubtotal ==
    SplitCalled =>
        /\ ret.ok
        /\ IsPrefix(Concat(ret.val), closeout_df)
        /\ \A k \in 1..3 :
              LET sec == Sections(ret.val)[k]
              IN /\ sec # <<>>
                 /\ IsSubtotal(sec[Len(sec)])
                 /\ CountSubtotals(sec) = 1

\* a split of a statement that goes on after its third subtotal match
C1_Witness ==
    /\ SplitCalled
    /\ ret.ok
    /\ Len(Concat(ret.val)) < Len(closeout_df)
    /\ Len(ret.val.expenses_df) > 1

\* the statement is SectionPrefix, a header row, k itemized rows and SummaryRows
ItemizedCount(df) == Len(df) - Len(SectionPrefix) - 1 - Len(SummaryRows)

HeaderOf(df) == df[Len(SectionPrefix) + 1]

Itemized(df) == [i \in 1..ItemizedCount(df) |-> df[Len(SectionPrefix) + 1 + i]]

HasAmount(r) == ~IsNaN(r.amount)

IsMedicalInput(df) ==
    /\ ItemizedCount(df) >= 0
    /\ SubSeq(df, 1, Len(SectionPrefix)) = SectionPrefix
    /\ HeaderOf(df) \in HeaderRows
    /\ \A i \in 1..ItemizedCount(df) : Itemized(df)[i] = MedItems[i, HasAmount(Itemized(df)[i])]
    /\ SubSeq(df, Len(df) - Len(SummaryRows) + 1, Len(df)) = SummaryRows

MedicalItemsCalled == op = "get_medical_items" /\ IsMedicalInput(closeout_df)

IsSheetItem(r) == r.b \in {<<TextDrA>>, <<TextDrB>>}

SheetItems(raw) == SelectSeq(raw.rows, IsSheetItem)

\* the sheet of the statement the loop is at
CurrentSheet == filenames[idx]

\* the number of medical items of that statement
n_items == Len(SheetItems(CurrentSheet))

\* the writer of the statement the loop is at has its layout fields
WriterBuilt ==
    pc \in {"create_title", "insert_column_a_financials", "insert_medical_table",
            "insert_column_b_financials", "insert_payouts_section", "insert_rates", "save"}

\* C3: for every number n of medical items the layout of BreakdownWriter has
\* med_table_final_row = 10 + n and bottom_section_first_row =
\* med_table_final_row + 2 (so it moves by d when n does), while
\* title_final_row is 8 and rates_top_row is 34 whatever n is.
C3_Layout ==
    WriterBuilt =>
        /\ writer.med_table_final_row = 10 + n_items
        /\ writer.bottom_section_first_row = writer.med_table_final_row + 2
        /\ writer.bottom_section_first_row - n_items = 12
        /\ writer.title_final_row = 8
        /\ writer.rates_top_row = 34

\* the layout of a statement with MaxN items, during the second pass of the loop
C3_Witness ==
    /\ WriterBuilt
    /\ idx = 2
    /\ n_items = MaxN
    /\ writer.bottom_section_first_row = 12 + MaxN

\* the medical table has just been inserted
MedicalTableInserted == pc = "insert_column_b_financials"

\* the rows of columns B to E, below the header row, the table has written
\* without the totals row
ItemDataRows ==
    {c[2] : c \in {d \in DOMAIN sheet : d[1] \in {"B", "C", "D", "E"}
                                       /\ d[2] > title_final_row + 1
                                       /\ d[2] < writer.med_table_final_row}}

\* the item rows and the totals row of the table of sheet raw, as cells of sh
TableCells(sh, raw) ==
    LET items == SheetItems(raw)
        n == Len(items)
        Has(cell, val) == cell \in DOMAIN sh /\ sh[cell] = val
    IN /\ \A i \in 1..n :
             /\ Has(<<"B", 9 + i>>, Text(_format_items(items[i].b[1])))
             /\ Has(<<"C", 9 + i>>, Number(Abs(items[i].j)))
             /\ Has(<<"D", 9 + i>>, Number(Num(0)))
             /\ Has(<<"E", 9 + i>>, Str("-"))
       /\ Has(<<"C", 10 + n>>, Formula("=SUM(C{0}:C{1})", <<10, 9 + n>>))
       /\ Has(<<"D", 10 + n>>, Formula("=SUM(D{0}:D{1})", <<10, 9 + n>>))
       /\ Has(<<"B", 9>>, Str("Medical Provider"))

AmountLookups ==
    { [op |-> "get_settlement_amount", match |-> PhraseSettlement, fact |-> "settlement_amount"],
      [op |-> "get_net_to_client_amount", match |-> PhraseNet, fact |-> "net_to_client_amount"],
      [op |-> "get_total_expenses", match |-> PhraseExpenses, fact |-> "total_expenses_amount"],
      [op |-> "get_total_medical", match |-> PhraseMedical, fact |-> "total_medical_amount"] }

\* the lookups whose amounts the breakdown shows without sign
SignedLookups == {q \in AmountLookups : q.op \in {"get_total_expenses", "get_total_medical"}}

\* the positions of the rows of the statement that match a phrase
Matches(match, errors) ==
    {i \in 1..Len(closeout_df) : IsFuzzyMatch(ItemStr(closeout_df[i].item), match, errors)}

\* the matching row that comes first in document order
FirstOf(S) == closeout_df[CHOOSE i \in S : \A j \in S : i <= j]

AmountMatches(q) == Matches(q.match, ErrorsAmount)

NameMatches == Matches(PhraseName, ErrorsName)

\* the client name a row labelled with it yields
NameIn(r) == Strip(Remove(ItemStr(r.item), PhraseName))

ParseCalled == op = "parse_closeout_df"

\* C5 as stated: total expenses, total medical and the billed amount of every
\* medical item are returned and stored as absolute values, whatever the sign
\* in the source.
C5_AmountsStoredAbsolute ==
    /\ \A q \in SignedLookups :
          /\ (op = q.op /\ ret.ok) => ret.val = Abs(FirstOf(AmountMatches(q)).amount)
          /\ (ParseCalled /\ facts[q.fact] # <<>>) =>
                 facts[q.fact][1] = Abs(FirstOf(AmountMatches(q)).amount)
    /\ (op = "get_medical_items" /\ ret.ok) =>
          \A i \in 1..Len(ret.val) : ret.val[i].amount[1] >= 0
    /\ (ParseCalled /\ facts.medical_items # <<>>) =>
          \A i \in 1..Len(facts.medical_items[1]) : facts.medical_items[1][i].amount[1] >= 0

\* C5: get_total_expenses, get_total_medical and parse_closeout_df return and
\* store the amount of the source row with its sign, and every medical item
\* returned or stored is a row of the statement, its amount as in the source:
\* nothing in the extraction takes an absolute value.
C5_AmountsStoredWithSign ==
    /\ \A q \in SignedLookups :
          /\ (op = q.op /\ ret.ok) =>
                 \E i \in AmountMatches(q) : ret.val = closeout_df[i].amount
          /\ (ParseCalled /\ facts[q.fact] # <<>>) =>
                 \E i \in AmountMatches(q) : facts[q.fact][1] = closeout_df[i].amount
    /\ (op = "get_medical_items" /\ ret.ok) =>
          \A i \in 1..Len(ret.val) : \E j \in 1..Len(closeout_df) : ret.val[i] = closeout_df[j]
    /\ (ParseCalled /\ facts.medical_items # <<>>) =>
          \A i \in 1..Len(facts.medical_items[1]) :
              \E j \in 1..Len(closeout_df) : facts.medical_items[1][i] = closeout_df[j]

\* a parsed statement whose total expenses, total medical and item are negative
C5_Witness ==
    /\ ParseCalled
    /\ ret.ok
    /\ facts.total_expenses_amount = <<Num(0 - 5)>>
    /\ facts.total_medical_amount = <<Num(0 - 7)>>
    /\ \E i \in 1..Len(facts.medical_items[1]) : facts.medical_items[1][i].amount[1] < 0

\* C6: when two or more rows match the phrase of a lookup, the lookup does not
\* fail and returns the value of the matching row that comes first in document
\* order, for each of the five lookups; parse_closeout_df stores those values.
C6_FirstMatchInDocumentOrder ==
    /\ \A q \in AmountLookups :
          (op = q.op /\ Cardinality(AmountMatches(q)) >= 2) =>
              /\ ret.ok
              /\ ret.val = FirstOf(AmountMatches(q)).amount
    /\ (op = "get_client_name" /\ Cardinality(NameMatches) >= 2) =>
          /\ ret.ok
          /\ ret.val = NameIn(FirstOf(NameMatches))
    /\ ParseCalled =>
          /\ \A q \in AmountLookups :
                (facts[q.fact] # <<>> /\ Cardinality(AmountMatches(q)) >= 2) =>
                    facts[q.fact][1] = FirstOf(AmountMatches(q)).amount
          /\ (facts.client_name # <<>> /\ Cardinality(NameMatches) >= 2) =>
                facts.client_name[1] = NameIn(FirstOf(NameMatches))
          /\ ((\A q \in AmountLookups : Cardinality(AmountMatches(q)) >= 2)
                  /\ Cardinality(NameMatches) >= 2) =>
                \A i \in 1..5 : facts[FactNames[i]] # <<>>

\* a statement where each of the five phrases has two matches or more, parsed
C6_Witness ==
    /\ ParseCalled
    /\ ret.ok
    /\ \A q \in AmountLookups : Cardinality(AmountMatches(q)) >= 2
    /\ Cardinality(NameMatches) >= 2
    /\ facts.client_name = << <<"j", "o", "e">> >>
    /\ facts.settlement_amount = <<Num(90)>>
    /\ facts.net_to_client_amount = <<Num(50)>>
    /\ facts.total_expenses_amount = <<Num(0 - 5)>>
    /\ facts.total_medical_amount = <<Num(0 - 7)>>

\* a lookup whose phrase no row of the statement matches
NoMatch(name) ==
    \/ \E q \in AmountLookups : name = q.op /\ AmountMatches(q) = {}
    \/ name = "get_client_name" /\ NameMatches = {}

C8_NoPartialFacts ==
    (/\ ParseCalled
     /\ CountSubtotals(closeout_df) < 3
     /\ NameMatches # {}
     /\ \A q \in AmountLookups : AmountMatches(q) # {}) => (~ret.ok /\ facts = NoFacts)

\* the statement of position i can be loaded, parsed and written without error
Processable(i) ==
    LET p == preprocess_closeout_df(filenames[i])
    IN /\ p.ok
       /\ parse_closeout_df(p.val, NoFacts).exc = "none"
       /\ Len(get_medical_items(p.val).val) >= 1

\* the output file of the statement of position i
ExpectedOutput(i) ==
    OutputFile(Upper(get_client_name(preprocess_closeout_df(filenames[i]).val).val))

\* C9 as stated: when loading, extracting or generating one statement of a
\* batch fails, the output workbook of every other statement is still written.
C9_FailureDoesNotAbortBatch ==
    (pc = "crashed" /\ error # "BdbQuit") =>
        \A i \in 1..Len(filenames) : Processable(i) => ExpectedOutput(i) \in DOMAIN disk

\* cells each of the six steps writes for a statement with n medical items
StepCells(n) ==
    {<<"B", 5>>, <<"B", 6>>}
    \cup {<<"A", 9>>, <<"A", 10>>, <<"A", 25>>, <<"A", 26>>}
    \cup {<<"B", 9>>, <<"E", 9>>, <<"B", 10 + n>>, <<"C", 10 + n>>, <<"D", 10 + n>>}
    \cup {<<"B", 12 + n>>, <<"B", 21 + n>>}
    \cup {<<"C", 12 + n>>, <<"D", 20 + n>>, <<"F", 12 + n>>, <<"G", 12 + n>>}
    \cup {<<"A", 34>>, <<"B", 39>>, <<"C", 39>>, <<"E", 36>>}

\* C10: every output file on disk holds a sheet all six steps (title, column A,
\* medical table, column B, payouts, rates) have written, and belongs to a
\* statement the loop has finished; the statement at which the program
\* crashed has no output file.
C10_AllOrNothing ==
    /\ \A f \in DOMAIN disk :
          /\ StepCells(Len(SheetItems(filenames[disk[f].statement]))) \subseteq DOMAIN disk[f].sheet
          /\ \/ disk[f].statement < idx
             \/ disk[f].statement = idx /\ pc = "done"
    /\ pc = "crashed" => \A f \in DOMAIN disk : disk[f].statement # idx
    /\ pc = "save" => StepCells(n_items) \subseteq DOMAIN sheet

\* the second statement of a batch crashed with its title on the sheet: the
\* only output file is the one of the first statement
C10_Witness ==
    /\ pc = "crashed"
    /\ idx = 2
    /\ error = "IndexError"
    /\ <<"B", 5>> \in DOMAIN sheet
    /\ ~(StepCells(n_items) \subseteq DOMAIN sheet)
    /\ Cardinality(DOMAIN disk) = 1
    /\ \A f \in DOMAIN disk : disk[f].statement = 1

\* the raw sheet CloseOutStatement was constructed on
RawSheet == filenames[1]

PreprocessCalled == op = "preprocess_closeout_df" /\ HasColumns(RawSheet)

\* the label of a source row: the primary label column, else the subtotal column
LabelOf(r) == IF IsNaN(r.b) THEN r.c ELSE r.b

\* a source row with a label or an amount, no field over len_thresh characters
IsKeptRow(r) ==
    /\ ~IsNaN(LabelOf(r)) \/ ~IsNaN(r.j)
    /\ IsNaN(LabelOf(r)) \/ Len(LabelOf(r)[1]) <= len_thresh
    /\ AmountStrLen(r.j) <= len_thresh

\* the record of a kept source row
RecordOf(r) ==
    [item |-> IF IsNaN(LabelOf(r)) THEN NaN
              ELSE << Strip(Remove(Remove(Lower(LabelOf(r)[1]), <<":">>), <<"-">>)) >>,
     amount |-> r.j]

RECURSIVE RecordsFrom(_, _)
RecordsFrom(rows, i) ==
    IF i > Len(rows) THEN <<>>
    ELSE (IF IsKeptRow(rows[i]) THEN <<RecordOf(rows[i])>> ELSE <<>>) \o RecordsFrom(rows, i + 1)

\* a row with an amount and no label in either label column
IsUnlabelled(r) == IsNaN(r.b) /\ IsNaN(r.c) /\ ~IsNaN(r.j)

\* C11 as stated: normalization does not fail and yields, in source order, one
\* record for every source row that has a label or an amount and no field
\* over 150 characters, its label the primary label column, else the subtotal
\* column, lowercased, ':' and '-' removed, stripped; a row with an amount and
\* no label is kept as a record.
C11_OneRecordPerKeptRow ==
    PreprocessCalled => (ret.ok /\ ret.val = RecordsFrom(RawSheet.rows, 1))

\* insert_column_a_financials has written the amounts of column A
ColumnAWritten ==
    pc \in {"insert_medical_table", "insert_column_b_financials", "insert_payouts_section",
            "insert_rates", "save"}

\* the second statement of the batch is the sheet of the first one, about to
\* be saved while the workbook of the first one is on disk
SameSheetTwice ==
    /\ pc = "save"
    /\ idx = 2
    /\ filenames[1] = filenames[2]
    /\ disk # <<>>

\* C12: cell A16 holds =(A10*f)-B{bottom_section_first_row + 5} with f = 0.4
\* when is_lit is true and f = 1/3 (written 0.3333333333333333) when it is
\* false; two workbooks of the same statement, whatever the two answers to the
\* litigation question were, have the same cells and differ in no cell but A16.
C12_LitigationChangesOnlyA16 ==
    /\ ColumnAWritten =>
          /\ <<"A", 16>> \in DOMAIN sheet
          /\ sheet[<<"A", 16>>] =
                Formula(IF is_lit THEN "=(A10*0.4)-B{0}" ELSE "=(A10*0.3333333333333333)-B{0}",
                        <<writer.bottom_section_first_row + 5>>)
          /\ writer.bottom_section_first_row + 5 = 17 + n_items
    /\ SameSheetTwice =>
          \A f \in DOMAIN disk :
              /\ DOMAIN disk[f].sheet = DOMAIN sheet
              /\ \A c \in DOMAIN sheet \ {<<"A", 16>>} : disk[f].sheet[c] = sheet[c]
              /\ disk[f].sheet[<<"A", 16>>].v.f \in {"=(A10*0.4)-B{0}", "=(A10*0.3333333333333333)-B{0}"}

\* the same statement written first without and then with litigation
C12_Witness ==
    /\ SameSheetTwice
    /\ is_lit
    /\ sheet[<<"A", 16>>].v.f = "=(A10*0.4)-B{0}"
    /\ \E f \in DOMAIN disk : disk[f].sheet[<<"A", 16>>].v.f = "=(A10*0.3333333333333333)-B{0}"
    /\ n_items = MaxN

\* the labels of the rows that close a section
ClosingLabels == {_format_items(TextSubTotal), _format_items(TextSubTotalMedical)}

\* the labels of the 'total ...' rows
TotalLabels ==
    {_format_items(TextExpenses), _format_items(TextExpense), _format_items(TextMedical),
     _format_items(TextReductions)}

\* the positions of the rows of the statement with one of the labels
RowsLabelled(labels) == {i \in 1..Len(closeout_df) : ItemStr(closeout_df[i].item) \in labels}

\* the last row of each section split_closeout_df returned, as a position
Boundaries(v) ==
    << Len(v.settlement_df),
       Len(v.settlement_df) + Len(v.expenses_df),
       Len(v.settlement_df) + Len(v.expenses_df) + Len(v.medical_df) >>

SplitReturned == op = "split_closeout_df" /\ ret.ok

\* C13: the boundaries s0 < s1 < s2 of split_closeout_df are the first three
\* rows labelled 'subtotal' (or 'subtotal medical'), never a row labelled
\* 'total expenses', 'total medical' or 'total medical reductions': with
\* budget 2 no 'total ...' row matches 'subtotal', so the split succeeds
\* exactly when three section-closing rows are there.
C13_BoundariesAreSubtotalRows ==
    /\ \A i \in RowsLabelled(TotalLabels) :
          ~IsFuzzyMatch(ItemStr(closeout_df[i].item), PhraseSubtotal, ErrorsSubtotal)
    /\ SplitReturned =>
          LET s == Boundaries(ret.val)
          IN /\ 1 <= s[1] /\ s[1] < s[2] /\ s[2] < s[3]
             /\ {s[1], s[2], s[3]} \subseteq RowsLabelled(ClosingLabels)
             /\ {s[1], s[2], s[3]} \cap RowsLabelled(TotalLabels) = {}
             /\ \A i \in RowsLabelled(ClosingLabels) : i \in {s[1], s[2], s[3]} \/ i > s[3]
    /\ op = "split_closeout_df" => (ret.ok <=> Cardinality(RowsLabelled(ClosingLabels)) >= 3)

\* a statement with its three closing rows and the three 'total ...' rows, split
C13_Witness ==
    /\ SplitReturned
    /\ Cardinality(RowsLabelled(ClosingLabels)) = 3
    /\ \A t \in {TextExpenses, TextMedical, TextReductions} : RowsLabelled({_format_items(t)}) # {}
    /\ \E i \in RowsLabelled(TotalLabels) : Boundaries(ret.val)[1] < i /\ i < Boundaries(ret.val)[2]
    /\ \E i \in RowsLabelled(TotalLabels) : Boundaries(ret.val)[2] < i /\ i < Boundaries(ret.val)[3]
    /\ RowsLabelled(ClosingLabels) = {Boundaries(ret.val)[k] : k \in 1..3}

\* the cells a sequence of assignments names
CellsOf(writes) == {writes[i][1] : i \in DOMAIN writes}

\* the cells the step the writer is at assigns
StepWrites ==
    CASE pc = "create_title" -> CellsOf(create_title(client_name))
      [] pc = "insert_column_a_financials" ->
            CellsOf(insert_column_a_financials_headers(writer))
            \cup CellsOf(insert_column_a_financials_amounts(writer, is_lit, NaN, NaN))
      [] pc = "insert_medical_table" ->
            {generate_medical_table_cells(writer)[i] : i \in DOMAIN generate_medical_table_cells(writer)}
            \cup CellsOf(IF Len(writer.med_table_rows) < 2 THEN TotalLabelWrite(writer)
                         ELSE insert_total_medical_row(writer))
      [] pc = "insert_column_b_financials" ->
            CellsOf(insert_column_b_financials_headers(writer))
            \cup CellsOf(insert_column_b_financials_amounts(writer))
      [] pc = "insert_payouts_section" -> CellsOf(insert_payouts_section(writer))
      [] pc = "insert_rates" -> CellsOf(insert_rates(writer))
      [] OTHER -> {}

\* C14 as stated: for every number of medical items, no step of the writer
\* assigns a cell an earlier step of the same workbook has assigned.
C14_NoCellAssignedTwice ==
    StepWrites \cap DOMAIN sheet = {}

\* the loop is at a statement every lookup succeeds on, with no medical item
ZeroItemsStatement ==
    /\ idx >= 1
    /\ parse_closeout_df(Statement, NoFacts).exc = "none"
    /\ Len(get_medical_items(Statement).val) = 0

\* C15 as stated: for a statement with zero medical items BreakdownWriter is
\* constructed without error, and its workbook has the header of the medical
\* table on row 9, the totals row on row 10 and the bottom section from row 12.
C15_ZeroItemsWorkbook ==
    ZeroItemsStatement =>
        /\ pc = "crashed" => error = "BdbQuit"
        /\ pc = "save" =>
              /\ sheet[<<"B", 9>>] = Str("Medical Provider")
              /\ sheet[<<"B", 10>>] = Str("Total")
              /\ writer.bottom_section_first_row = 12
              /\ <<"B", 12>> \in DOMAIN sheet

====
